---- MODULE Spec2Model ----
(* Model of pyrelate.descriptors.ler (src/pyrelate/descriptors.py):       *)
(* greedy clustering of local-environment vectors, nearest-center         *)
(* classification through an Annoy index saved to the scratch file 'tmp', *)
(* memoisation of the artifact U in the store, and the LER histogram.     *)
EXTENDS Integers, Sequences, FiniteSets, TLC

\* ---------------------------------------------------------------- bounds
\* most local-environment vectors (rows of the SOAP matrices) in the whole collection
MaxRows == 3
\* most rows in the whole collection when two callers overlap
ConcRows == 2

\* ---------------------------------------------------------------- data
\* `for aid in collection`: the collection's keys in iteration order
Collection == <<"A", "B">>
Aids == {Collection[i] : i \in 1..Len(Collection)}

\* a row of the SOAP matrix that is None
NoneVal == <<>>
\* full-dimension local-environment vectors
Vecs == {<<2, 3>>, <<0, 4>>, <<4, 1>>}
\* a row whose length differs from the seed's (numpy broadcasts it, Annoy rejects it)
ShortVecs == {<<2>>}
Laes == Vecs \cup ShortVecs \cup {NoneVal}

\* elements.seed(...): the perfect-crystal seed generated when seed is None
ElementSeed == <<0, 0>>
\* values of the seed argument; NoneVal is seed=None
SeedArgs == {NoneVal, <<4, 1>>}
\* values of the eps argument
EpsArgs == {0, 3, 4}

Procs == {1, 2}

\* the key ('0', 0) under which the seed is registered
SeedKey == <<"0", 0>>

\* store.get("temp", 'U_ler', ...) returning None
NoU == [centers |-> <<>>, clusters |-> <<>>]

VARIABLES
  soap,      \* store.get(res_needed, aid): aid -> sequence of rows
  annoyExact,\* whether the index answers every query with a true nearest item
  active,    \* the callers of ler()
  again,     \* whether a caller calls ler() again after a call has ended
  epss,      \* the values callers pass as eps
  store,     \* store "temp"/'U_ler' results, by cache key
  tmp,       \* the scratch file 'tmp': whether the name exists, who maps its inode
  pc,        \* per caller: position inside ler()
  eps,       \* per caller: the eps argument
  seed,      \* per caller: the seed variable
  U,         \* per caller: the local U
  pos,       \* per caller: position of the running loop in the traversal
  a,         \* per caller: items seen through its AnnoyIndex
  dim,       \* per caller: dim
  aid,       \* per caller: atoms.get_array('aid')[0] of the last histogram
  result,    \* per caller: the returned histogram
  err        \* per caller: the exception that left ler()

vars == <<soap, annoyExact, active, again, epss, store, tmp, pc, eps, seed, U, pos,
          a, dim, aid, result, err>>

\* ---------------------------------------------------------------- helpers
RECURSIVE SumSeq(_)
SumSeq(s) == IF s = <<>> THEN 0 ELSE Head(s) + SumSeq(Tail(s))

\* enumerate(store.get(res_needed, aid)) over `for aid in collection`:
\* the traversal as one sequence of (aid, lae_num, lae)
RowsOf(sp, x) == [n \in 1..Len(sp[x]) |-> [aid |-> x, lae_num |-> n - 1, lae |-> sp[x][n]]]

RECURSIVE StreamFrom(_, _)
StreamFrom(sp, i) ==
  IF i > Len(Collection) THEN <<>>
  ELSE RowsOf(sp, Collection[i]) \o StreamFrom(sp, i + 1)

Stream(sp) == StreamFrom(sp, 1)

\* numpy broadcasting of unique - lae: an operand of length 1 is stretched
\* to the length of the other (the rows here have length 1 or len(seed))
At(u, i) == IF Len(u) = 1 THEN u[1] ELSE u[i]

MaxOf(m, n) == IF m >= n THEN m ELSE n

\* np.linalg.norm(unique - lae) squared
Norm2(u, v) ==
  SumSeq([i \in 1..MaxOf(Len(u), Len(v)) |-> (At(u, i) - At(v, i)) * (At(u, i) - At(v, i))])

\* the comparison of line 92 written as dist <= eps
DistLessOrEqual(u, v, e) == e >= 0 /\ Norm2(u, v) <= e * e

\* the comparison of line 92 inverted: dist > eps
DistGreater(u, v, e) == e < 0 \/ Norm2(u, v) > e * e

\* dist < eps, for dist = np.linalg.norm(unique - lae) >= 0
DistLess(u, v, e) == e > 0 /\ Norm2(u, v) < e * e

\* the loop of line 90 looking at the last registered center only
CoveredByLast(centers, lae, e) == DistLess(centers[Len(centers)].val, lae, e)

\* the for/else over U['centers'].values(): break when some center is closer than eps
Covered(centers, lae, e) == \E i \in 1..Len(centers) : DistLess(centers[i].val, lae, e)

Keys(od) == [i \in 1..Len(od) |-> od[i].key]
Values(od) == [i \in 1..Len(od) |-> od[i].val]
KeySet(od) == {od[i].key : i \in 1..Len(od)}

\* index of key k in an ordered dict (0 when absent)
IndexOf(od, k) == IF k \in KeySet(od) THEN CHOOSE i \in 1..Len(od) : od[i].key = k ELSE 0

\* a new key put in front of the existing ones instead of after them
PutFirst(od, k, v) ==
  IF k \in KeySet(od)
  THEN [od EXCEPT ![IndexOf(od, k)].val = v]
  ELSE <<[key |-> k, val |-> v]>> \o od

\* od[k] = v on an ordered dict: replace in place or append
Put(od, k, v) ==
  IF k \in KeySet(od)
  THEN [od EXCEPT ![IndexOf(od, k)].val = v]
  ELSE Append(od, [key |-> k, val |-> v])

\* ---------------------------------------------------------------- Annoy
\* AnnoyIndex.add_item / get_nns_by_vector accept only vectors of length dim
RightLength(v, d) == Len(v) = d

\* the items at least as close to v as every other item (euclidean metric)
\* the items of the index at maximum distance from v
FarthestNN(items, v) ==
  {i \in 1..Len(items) : \A j \in 1..Len(items) : Norm2(items[i], v) >= Norm2(items[j], v)}

\* the items of the index at minimum distance from v
ExactNN(items, v) ==
  {i \in 1..Len(items) : \A j \in 1..Len(items) : Norm2(items[i], v) <= Norm2(items[j], v)}

\* the index answering with any of its items whatever the forest
QueryAny(items, v) == 1..Len(items)

\* a.get_nns_by_vector(lae, 1, search_k=search_k)[0] as a 1-based item number:
\* a nearest item when the forest search is exact, some item otherwise
Query(items, v) == IF annoyExact THEN ExactNN(items, v) ELSE 1..Len(items)

\* ---------------------------------------------------------------- histogram
\* the size of the bucket instead of the number of its ids that belong to aid
CountAll(cluster, x) == Len(cluster)

\* np.count_nonzero(np.array([c[0] for c in cluster]) == aid)
CountAid(cluster, x) == Cardinality({i \in 1..Len(cluster) : cluster[i][1] = x})

\* lines 123-126: one count per bucket, in the iteration order of U['clusters']
Counts(u, x) == [i \in 1..Len(u.clusters) |-> CountAid(u.clusters[i].val, x)]

\* the counts divided by the number of ids in all buckets instead of by their sum
HistogramOverAll(u, x) ==
  [i \in 1..Len(u.clusters) |->
    <<CountAid(u.clusters[i].val, x), SumSeq([j \in 1..Len(u.clusters) |-> Len(u.clusters[j].val)])>>]

\* lines 123-127: result / np.sum(result); an entry is <<count, divisor>>,
\* and a divisor of 0 is numpy's nan (0.0 / 0.0, no exception)
Histogram(u, x) == [i \in 1..Len(u.clusters) |-> <<Counts(u, x)[i], SumSeq(Counts(u, x))>>]

\* ---------------------------------------------------------------- cache key
\* the keyword arguments of store.get / store.store that vary here: eps
\* (the collection and the other arguments are the same in every call; seed is not part of the key)
Key(e, s) == e

\* ---------------------------------------------------------------- state
SeqsUpTo(S, n) == UNION {[1..k -> S] : k \in 0..n}

\* the SOAP results of the collection: at most MaxRows rows of S in all
Soaps(S) == {sp \in [Aids -> SeqsUpTo(S, MaxRows)] : Len(Stream(sp)) <= MaxRows}

Blank == [centers |-> <<>>, clusters |-> <<>>]

InitWith(soaps, exact, callers, more, es) ==
  /\ soap \in soaps
  /\ annoyExact = exact
  /\ active = callers
  /\ again = more
  /\ epss = es
  /\ store = [k \in EpsArgs \cup es |-> NoU]
  /\ tmp = [exists |-> FALSE, maps |-> {}]
  /\ pc = [p \in Procs |-> "idle"]
  /\ eps = [p \in Procs |-> 0]
  /\ seed = [p \in Procs |-> NoneVal]
  /\ U = [p \in Procs |-> Blank]
  /\ pos = [p \in Procs |-> 0]
  /\ a = [p \in Procs |-> <<>>]
  /\ dim = [p \in Procs |-> 0]
  /\ aid = [p \in Procs |-> ""]
  /\ result = [p \in Procs |-> <<>>]
  /\ err = [p \in Procs |-> ""]

\* one caller: one call over any collection and with any eps, the index
\* exact; one call over a collection of well-formed rows with eps > 0, the
\* index answering a query with any of its items; or call after call over a
\* collection of well-formed rows with eps > 0, the index exact
Init ==
  \/ InitWith(Soaps(Laes), TRUE, {1}, FALSE, EpsArgs)
  \/ InitWith(Soaps(Vecs), FALSE, {1}, FALSE, EpsArgs \ {0})
  \/ InitWith(Soaps(Vecs), TRUE, {1}, TRUE, EpsArgs \ {0})

\* two callers, one call each, that may overlap, over a collection of well-formed rows
ConcInit ==
  InitWith({sp \in Soaps(Vecs) : Len(Stream(sp)) <= ConcRows}, TRUE, {1, 2}, FALSE, EpsArgs \ {0})

\* the collection and threshold of the worked example, in tenths: configuration
\* A = (0.1,0.1), (5,5), (5.1,5.1), configuration B = (0,0.2), (5,5.2), eps = 1.0
ScenarioSoap ==
  [A |-> <<<<1, 1>>, <<50, 50>>, <<51, 51>>>>, B |-> <<<<0, 2>>, <<50, 52>>>>]
ScenarioEpss == {10}

\* one caller, call after call over the worked example, the index exact or not
ScenarioInit ==
  \/ InitWith({ScenarioSoap}, TRUE, {1}, TRUE, ScenarioEpss)
  \/ InitWith({ScenarioSoap}, FALSE, {1}, TRUE, ScenarioEpss)

\* ---------------------------------------------------------------- ler()
\* the exception is swallowed and the call goes on to store what it has
RaiseSwallowed(p, e) ==
  /\ pc' = [pc EXCEPT ![p] = "store"]
  /\ err' = [err EXCEPT ![p] = e]

\* the exception `e` leaves ler(): nothing after the raising statement runs
Raise(p, e) ==
  /\ pc' = [pc EXCEPT ![p] = "failed"]
  /\ err' = [err EXCEPT ![p] = e]

\* where the traversal loop at `at` goes after position i: on, or to `after`
LoopPc(i, at, after) == IF i > Len(Stream(soap)) THEN after ELSE at

\* the test of line 73 always taken: every call builds
IsNoneAlways(got) == TRUE

\* line 73: `if U is None`
IsNone(got) == got = NoU

\* lines 71-84: look the artifact up; on a miss start U with the seed as first center
Call(p) ==
  /\ p \in active
  /\ pc[p] = "idle" \/ (again /\ pc[p] \in {"done", "failed"})
  /\ \E e \in epss, s \in SeedArgs :
       LET sd == IF s = NoneVal THEN ElementSeed ELSE s
           got == store[Key(e, s)]
       IN /\ eps' = [eps EXCEPT ![p] = e]
          /\ IF IsNone(got)
             THEN /\ seed' = [seed EXCEPT ![p] = sd]
                  /\ U' = [U EXCEPT ![p] = [centers |-> <<[key |-> SeedKey, val |-> sd]>>,
                                           clusters |-> <<>>]]
                  /\ pos' = [pos EXCEPT ![p] = 1]
                  /\ pc' = [pc EXCEPT ![p] = LoopPc(1, "cluster", "index")]
             ELSE /\ seed' = [seed EXCEPT ![p] = s]
                  /\ U' = [U EXCEPT ![p] = got]
                  /\ pos' = [pos EXCEPT ![p] = 0]
                  /\ pc' = [pc EXCEPT ![p] = "hist"]
  /\ a' = [a EXCEPT ![p] = <<>>]
  /\ dim' = [dim EXCEPT ![p] = 0]
  /\ aid' = [aid EXCEPT ![p] = ""]
  /\ result' = [result EXCEPT ![p] = <<>>]
  /\ err' = [err EXCEPT ![p] = ""]
  /\ UNCHANGED <<soap, annoyExact, active, again, epss, store, tmp>>

\* lines 90-95: the centers after one row of the traversal
Register(centers, row, e) ==
  IF Covered(centers, row.lae, e)
  THEN centers
  ELSE Put(centers, <<row.aid, row.lae_num>>, row.lae)

\* lines 85-95: one iteration of the clustering loop
Cluster(p) ==
  /\ pc[p] = "cluster"
  /\ LET row == Stream(soap)[pos[p]]
     IN IF row.lae = NoneVal
        THEN /\ Raise(p, "RuntimeError")
             /\ UNCHANGED <<U, pos>>
        ELSE /\ U' = [U EXCEPT ![p].centers = Register(@, row, eps[p])]
             /\ pos' = [pos EXCEPT ![p] = @ + 1]
             /\ pc' = [pc EXCEPT ![p] = LoopPc(pos[p] + 1, "cluster", "index")]
             /\ UNCHANGED err
  /\ UNCHANGED <<soap, annoyExact, active, again, epss, store, tmp, eps, seed, a, dim, aid, result>>

\* what a caller sees through its index once another caller's save has
\* rewritten the file it is mapped from (an index always holds the seed)
Garbled == <<>>

\* a.save('tmp'): fopen(..., "wb") truncates and rewrites the inode the name
\* points to, or creates one, and the index is then mapped from that file;
\* the callers whose index was mapped from that inode now read the new bytes
SaveTmp(p, items) ==
  /\ tmp' = [exists |-> TRUE, maps |-> IF tmp.exists THEN tmp.maps \cup {p} ELSE {p}]
  /\ a' = [q \in Procs |->
            IF q = p THEN items
            ELSE IF tmp.exists /\ q \in tmp.maps THEN Garbled
            ELSE a[q]]

\* lines 99-105: build the index over the centers and save it to 'tmp'
Index(p) ==
  /\ pc[p] = "index"
  /\ LET d == Len(seed[p])
         items == Values(U[p].centers)
     IN /\ dim' = [dim EXCEPT ![p] = d]
        /\ IF \E i \in 1..Len(items) : ~RightLength(items[i], d)
           THEN /\ Raise(p, "IndexError")
                /\ UNCHANGED <<tmp, a, pos>>
           ELSE /\ SaveTmp(p, items)
                /\ pos' = [pos EXCEPT ![p] = 1]
                /\ pc' = [pc EXCEPT ![p] = LoopPc(1, "classify", "remove")]
                /\ UNCHANGED err
  /\ UNCHANGED <<soap, annoyExact, active, again, epss, store, eps, seed, U, aid, result>>

\* lines 112-114 without the membership test: the bucket restarts at every row
AssignOverwrite(clusters, cluster, id) == Put(clusters, cluster, <<id>>)

\* the bucket keyed by the row's id instead of by the center found for it
AssignUnderId(clusters, cluster, id) ==
  LET cs == IF id \in KeySet(clusters) THEN clusters ELSE Put(clusters, id, <<>>)
  IN [cs EXCEPT ![IndexOf(cs, id)].val = Append(@, id)]

\* lines 110-114: append the row's id to the bucket of the center numbered nni
Assign(clusters, cluster, id) ==
  LET cs == IF cluster \in KeySet(clusters) THEN clusters ELSE Put(clusters, cluster, <<>>)
  IN [cs EXCEPT ![IndexOf(cs, cluster)].val = Append(@, id)]

\* line 108 for caller p: the answer of its index, as a 1-based item number;
\* through a rewritten file the query ends the call (0) or answers any number
\* that line 110 accepts
Answers(p, v) == IF a[p] = Garbled THEN 0..Len(U[p].centers) ELSE Query(a[p], v)

\* lines 106-114: one iteration of the classification loop
Classify(p) ==
  /\ pc[p] = "classify"
  /\ LET row == Stream(soap)[pos[p]]
     IN IF ~RightLength(row.lae, dim[p])
        THEN /\ Raise(p, "IndexError")
             /\ UNCHANGED <<U, pos>>
        ELSE \E nni \in Answers(p, row.lae) :
               IF nni = 0
               THEN /\ Raise(p, "Crash")
                    /\ UNCHANGED <<U, pos>>
               ELSE /\ U' = [U EXCEPT ![p].clusters =
                               Assign(@, Keys(U[p].centers)[nni], <<row.aid, row.lae_num>>)]
                    /\ pos' = [pos EXCEPT ![p] = @ + 1]
                    /\ pc' = [pc EXCEPT ![p] = LoopPc(pos[p] + 1, "classify", "remove")]
                    /\ UNCHANGED err
  /\ UNCHANGED <<soap, annoyExact, active, again, epss, store, tmp, eps, seed, a, dim, aid, result>>

\* lines 115-116: os.remove('tmp')
Remove(p) ==
  /\ pc[p] = "remove"
  /\ IF tmp.exists
     THEN /\ tmp' = [exists |-> FALSE, maps |-> {}]
          /\ pc' = [pc EXCEPT ![p] = "store"]
          /\ UNCHANGED err
     ELSE /\ Raise(p, "FileNotFoundError")
          /\ UNCHANGED tmp
  /\ UNCHANGED <<soap, annoyExact, active, again, epss, store, eps, seed, U, pos, a, dim, aid, result>>

\* lines 118-119: store.store(U, "temp", 'U_ler', ...)
StoreU(p) ==
  /\ pc[p] = "store"
  /\ store' = [store EXCEPT ![Key(eps[p], seed[p])] = U[p]]
  /\ pc' = [pc EXCEPT ![p] = "hist"]
  /\ UNCHANGED <<soap, annoyExact, active, again, epss, tmp, eps, seed, U, pos, a, dim, aid, result, err>>

\* lines 121-128: the LER of the configuration atoms belongs to
Hist(p) ==
  /\ pc[p] = "hist"
  /\ \E x \in Aids :
       /\ aid' = [aid EXCEPT ![p] = x]
       /\ result' = [result EXCEPT ![p] = Histogram(U[p], x)]
  /\ pc' = [pc EXCEPT ![p] = "done"]
  /\ UNCHANGED <<soap, annoyExact, active, again, epss, store, tmp, eps, seed, U, pos, a, dim, err>>

Next ==
  \E p \in Procs :
    \/ Call(p)
    \/ Cluster(p)
    \/ Index(p)
    \/ Classify(p)
    \/ Remove(p)
    \/ StoreU(p)
    \/ Hist(p)

Spec == Init /\ [][Next]_vars

ConcSpec == ConcInit /\ [][Next]_vars

ScenarioSpec == ScenarioInit /\ [][Next]_vars

\* ---------------------------------------------------------------- properties
Rest == {"idle", "done", "failed"}
Build == {"cluster", "index", "classify", "remove", "store"}

\* the ids (aid, lae_num) of the rows of the collection
Ids == {<<Stream(soap)[i].aid, Stream(soap)[i].lae_num>> : i \in 1..Len(Stream(soap))}

\* how often id occurs in the buckets cl
Occurrences(cl, id) ==
  SumSeq([i \in 1..Len(cl) |-> Cardinality({j \in 1..Len(cl[i].val) : cl[i].val[j] = id})])

\* the artifacts a build has completed: the stored ones and those about to be stored
Built == {store[k] : k \in {e \in EpsArgs : store[e] # NoU}} \cup {U[p] : p \in {q \in Procs : pc[q] = "store"}}

\* C1: after a successful build every (aid, lae_num) of the collection occurs
\* in exactly one bucket of U['clusters'], exactly once, no other id occurs,
\* and the ids of a configuration over all buckets number its rows.
C1_Partition ==
  LET ids == Ids
  IN \A u \in Built :
       /\ \A id \in ids : Occurrences(u.clusters, id) = 1
       /\ \A i \in 1..Len(u.clusters) : \A j \in 1..Len(u.clusters[i].val) : u.clusters[i].val[j] \in ids
       /\ \A x \in Aids : SumSeq(Counts(u, x)) = Len(soap[x])

\* an artifact is stored whose rows went to two buckets, one of them twice,
\* through an index that may answer with any item
C1_Witness ==
  \E k \in EpsArgs :
    /\ ~annoyExact
    /\ Len(store[k].clusters) = 2
    /\ \E i \in 1..2 : Len(store[k].clusters[i].val) = 2

\* C2: the histogram ler() returns has as many entries as the artifact has centers.
C2_LengthIsCenterCount ==
  \A p \in Procs : pc[p] = "done" => Len(result[p]) = Len(U[p].centers)

\* rows of configuration x in the bucket of center key k
CountFor(u, k, x) ==
  IF k \in KeySet(u.clusters) THEN CountAid(u.clusters[IndexOf(u.clusters, k)].val, x) ELSE 0

\* C3: entry i of the histogram is the count of the configuration's rows
\* assigned to the i-th center in center creation order, over the
\* configuration's row count (stated for the histograms that have one entry
\* per center).
C3_CenterOrder ==
  \A p \in Procs :
    (pc[p] = "done" /\ Len(result[p]) = Len(U[p].centers)) =>
      \A i \in 1..Len(result[p]) :
        result[p][i] = <<CountFor(U[p], U[p].centers[i].key, aid[p]), Len(soap[aid[p]])>>

\* the artifacts stored for thresholds e1 < e2 were built from the same seed
SameSeedPair(e1, e2) ==
  /\ e1 < e2
  /\ store[e1] # NoU
  /\ store[e2] # NoU
  /\ store[e1].centers[1].val = store[e2].centers[1].val

\* C4 as claimed: with seed, traversal and metric fixed, the pass with the
\* larger threshold never produces more centers.
C4_ThresholdMonotone ==
  \A e1, e2 \in EpsArgs :
    SameSeedPair(e1, e2) => Len(store[e2].centers) <= Len(store[e1].centers)

\* C4 as amended: the larger threshold never produces more centers when the
\* traversal has at most two rows.
C4_MonotoneUpToTwoRows ==
  \A e1, e2 \in EpsArgs :
    (SameSeedPair(e1, e2) /\ Len(Stream(soap)) <= 2) =>
      Len(store[e2].centers) <= Len(store[e1].centers)

\* two rows, and the larger threshold produced strictly fewer centers
C4_Witness ==
  \E e1, e2 \in EpsArgs :
    /\ SameSeedPair(e1, e2)
    /\ Len(Stream(soap)) = 2
    /\ Len(store[e2].centers) < Len(store[e1].centers)

\* C5: a clustering step registers the row as a new center under its own
\* (aid, lae_num) exactly when no registered center is closer than eps
\* (a row at distance exactly eps is registered); otherwise the centers
\* are unchanged.
C5_RegisterIffFar ==
  [][\A p \in Procs :
       (pc[p] = "cluster" /\ pos'[p] = pos[p] + 1) =>
         LET row == Stream(soap)[pos[p]]
             cs == U[p].centers
         IN IF \A i \in 1..Len(cs) : Norm2(cs[i].val, row.lae) >= eps[p] * eps[p]
            THEN U'[p].centers = Append(cs, [key |-> <<row.aid, row.lae_num>>, val |-> row.lae])
            ELSE U'[p].centers = cs]_vars

\* a row at distance exactly eps > 0 from the seed, its only center, was registered
C5_Witness ==
  \E p \in Procs :
    /\ pc[p] \in {"cluster", "index"}
    /\ eps[p] > 0
    /\ pos[p] = 2
    /\ Len(U[p].centers) = 2
    /\ Norm2(U[p].centers[1].val, U[p].centers[2].val) = eps[p] * eps[p]

\* every row of the collection is in a bucket of u, under the key of a center of u
Complete(u) ==
  /\ Len(u.centers) >= 1
  /\ KeySet(u.clusters) \subseteq KeySet(u.centers)
  /\ \A id \in Ids : Occurrences(u.clusters, id) = 1

\* C6: a call that fails leaves ler() with its error and no artifact in the
\* store for its key; the store is written only by a call that has finished
\* clustering and classification, and then with its complete artifact.
C6_FailureCachesNothing ==
  [][/\ \A p \in Procs :
          pc'[p] = "failed" => (err'[p] # "" /\ store'[Key(eps'[p], seed'[p])] = NoU)
     /\ store' # store =>
          \E p \in Procs :
            /\ pc[p] = "store"
            /\ pos[p] = Len(Stream(soap)) + 1
            /\ Complete(U[p])
            /\ store' = [store EXCEPT ![Key(eps[p], seed[p])] = U[p]]]_vars

\* a call failed in classification, after it had filled a bucket
C6_Witness ==
  \E p \in Procs :
    /\ pc[p] = "failed"
    /\ err[p] = "IndexError"
    /\ Len(U[p].clusters) >= 1
    /\ store[eps[p]] = NoU

\* C7: whenever ler() has returned or raised, the scratch file 'tmp' does not exist.
C7_TmpReleased ==
  \A p \in Procs : pc[p] \in {"done", "failed"} => ~tmp.exists

\* C8: no two callers are inside the clustering/classification build for the
\* same cache key at the same time.
C8_SingleFlight ==
  \A p, q \in Procs :
    (p # q /\ pc[p] \in Build /\ pc[q] \in Build) => Key(eps[p], seed[p]) # Key(eps[q], seed[q])

\* C9: with calls one after another, a build runs only while the store has no
\* artifact for the key; a call that finds one goes straight to the histogram
\* with the cached artifact; a stored artifact is never written again or
\* changed; and every call that returns has run the histogram step on its U.
C9_BuildOnlyOnMiss ==
  [][/\ \A k \in EpsArgs : store[k] # NoU => store'[k] = store[k]
     /\ \A p \in Procs :
          /\ pc'[p] \in Build => store'[Key(eps'[p], seed'[p])] = NoU
          /\ (pc[p] \in Rest /\ pc'[p] \notin Rest /\ store[Key(eps'[p], seed'[p])] # NoU) =>
               (pc'[p] = "hist" /\ U'[p] = store[Key(eps'[p], seed'[p])])
          /\ (pc'[p] = "done" /\ pc[p] # "done") =>
               (pc[p] = "hist" /\ result'[p] = Histogram(U[p], aid'[p]))]_vars

\* a later call found the artifact of an earlier call and is at the histogram step
C9_Witness ==
  \E p \in Procs :
    /\ pc[p] = "hist"
    /\ pos[p] = 0
    /\ U[p] = store[eps[p]]
    /\ Len(U[p].clusters) >= 2

\* C10: for a configuration with at least one row, the histogram entries
\* share a positive divisor, their counts add up to it, and each count lies
\* between 0 and the divisor: the entries sum to 1.
C10_SumsToOne ==
  \A p \in Procs :
    (pc[p] = "done" /\ Len(soap[aid[p]]) >= 1) =>
      /\ Len(result[p]) >= 1
      /\ \A i \in 1..Len(result[p]) :
           /\ result[p][i][2] = result[p][1][2]
           /\ 0 <= result[p][i][1]
           /\ result[p][i][1] <= result[p][i][2]
      /\ result[p][1][2] > 0
      /\ SumSeq([i \in 1..Len(result[p]) |-> result[p][i][1]]) = result[p][1][2]

\* a histogram with two non-zero entries was returned while the other
\* configuration has rows too
C10_Witness ==
  \E p \in Procs :
    /\ pc[p] = "done"
    /\ Len(result[p]) = 2
    /\ result[p][1][1] >= 1
    /\ result[p][2][1] >= 1
    /\ \E x \in Aids : x # aid[p] /\ Len(soap[x]) >= 1

\* C11: a histogram asked for a configuration none of whose rows is in a
\* bucket is the zero-length sentinel, so no entry is a division by a zero total.
C11_ZeroRowsSentinel ==
  \A p \in Procs :
    (pc[p] = "done" /\ SumSeq(Counts(U[p], aid[p])) = 0) => result[p] = <<>>

C13_Scenario ==
  \A p \in Procs :
    (annoyExact /\ pc[p] \in {"store", "hist", "done"} /\ U[p].centers[1].val = <<0, 0>>) =>
      /\ Keys(U[p].centers) = <<SeedKey, <<"A", 1>>>>
      /\ Values(U[p].centers) = <<<<0, 0>>, <<50, 50>>>>
      /\ pc[p] = "done" =>
           result[p] = IF aid[p] = "A" THEN <<<<1, 3>>, <<2, 3>>>> ELSE <<<<1, 2>>, <<1, 2>>>>

\* the call that built the artifact from seed (0,0) returned B's histogram
C13_Witness ==
  \E p \in Procs :
    /\ annoyExact
    /\ pc[p] = "done"
    /\ pos[p] = Len(Stream(soap)) + 1
    /\ U[p].centers[1].val = <<0, 0>>
    /\ aid[p] = "B"
    /\ Len(result[p]) = 2

\* C14: in every artifact a build has completed the bucket keys are center
\* keys and there is at least one center, the first being the seed's ('0', 0).
C14_BucketsUnderCenters ==
  \A u \in Built :
    /\ KeySet(u.clusters) \subseteq KeySet(u.centers)
    /\ Len(u.centers) >= 1
    /\ u.centers[1].key = SeedKey

\* an artifact built with eps = 0 is about to be stored: every row is a
\* center and two of them have a bucket
C14_Witness ==
  \E p \in Procs :
    /\ pc[p] = "store"
    /\ eps[p] = 0
    /\ Len(U[p].centers) = Len(Stream(soap)) + 1
    /\ Len(U[p].clusters) >= 2

\* an artifact built over a collection without rows is stored: the seed is
\* its only center and it has no bucket
C14_EmptyWitness ==
  \E k \in DOMAIN store :
    /\ store[k] # NoU
    /\ Len(Stream(soap)) = 0
    /\ Len(store[k].centers) = 1
    /\ store[k].clusters = <<>>

\* caller p has run clustering and classification in this call, and no other
\* caller's save rewrote the file its index was mapped from
BuiltHere(p) ==
  /\ pc[p] \in {"store", "hist", "done"}
  /\ pos[p] = Len(Stream(soap)) + 1
  /\ a[p] # Garbled

C16_OwnSeed ==
  \A p \in Procs :
    (pc[p] \in {"hist", "done"} /\ seed[p] # NoneVal) => U[p].centers[1].val = seed[p]

\* position in the traversal of the row that center key k comes from (0 for the seed)
RowOf(k) ==
  IF k = SeedKey THEN 0
  ELSE CHOOSE n \in 1..Len(Stream(soap)) : <<Stream(soap)[n].aid, Stream(soap)[n].lae_num>> = k

\* C17: after the clustering pass with eps > 0 any two distinct centers are at
\* distance >= eps, and every row that did not become a center is closer than
\* eps to a center registered before the row was processed.
C17_SeparatedAndCovered ==
  \A p \in Procs :
    (pc[p] = "index" /\ eps[p] > 0) =>
      LET cs == U[p].centers
          st == Stream(soap)
      IN /\ \A i, j \in 1..Len(cs) : i # j => Norm2(cs[i].val, cs[j].val) >= eps[p] * eps[p]
         /\ \A n \in 1..Len(st) :
              <<st[n].aid, st[n].lae_num>> \notin KeySet(cs) =>
                \E i \in 1..Len(cs) :
                  /\ RowOf(cs[i].key) < n
                  /\ Norm2(cs[i].val, st[n].lae) < eps[p] * eps[p]

\* the pass ended with three centers and a row that is none of them
C17_Witness ==
  \E p \in Procs :
    /\ pc[p] = "index"
    /\ eps[p] > 0
    /\ Len(U[p].centers) = 3
    /\ Len(Stream(soap)) = 3

\* the vector of the row with id k
LaeOf(k) == Stream(soap)[RowOf(k)].lae

\* the classified artifacts with the eps they were built for
Classified ==
  {<<store[k], k>> : k \in {e \in DOMAIN store : store[e] # NoU}}
    \cup {<<U[p], eps[p]>> : p \in {q \in Procs : pc[q] \in {"remove", "store"}}}

\* C18: with exact nearest-center classification every row sits in the bucket
\* of a center at minimum distance from it among all final centers; that center
\* equals the row or is closer than eps to it; and every discovered center whose
\* vector no other center has is a member of its own bucket.
C18_NearestFinalCenter ==
  annoyExact =>
    \A ue \in Classified :
      LET cs == ue[1].centers
          bs == ue[1].clusters
          e  == ue[2]
      IN /\ \A b \in 1..Len(bs) : \A m \in 1..Len(bs[b].val) :
              LET c == cs[IndexOf(cs, bs[b].key)].val
                  v == LaeOf(bs[b].val[m])
              IN /\ \A j \in 1..Len(cs) : Norm2(c, v) <= Norm2(cs[j].val, v)
                 /\ Norm2(c, v) = 0 \/ Norm2(c, v) < e * e
         /\ \A i \in 1..Len(cs) :
              (cs[i].key # SeedKey /\ \A j \in 1..Len(cs) : j # i => cs[j].val # cs[i].val) =>
                /\ cs[i].key \in KeySet(bs)
                /\ \E m \in 1..Len(bs[IndexOf(bs, cs[i].key)].val) :
                     bs[IndexOf(bs, cs[i].key)].val[m] = cs[i].key

\* a row covered by the seed during clustering sits in the bucket of a center
\* that was registered after the row was processed
C18_Witness ==
  /\ annoyExact
  /\ \E p \in Procs :
       /\ pc[p] = "store"
       /\ \E b \in 1..Len(U[p].clusters) : \E m \in 1..Len(U[p].clusters[b].val) :
            /\ U[p].clusters[b].key # SeedKey
            /\ U[p].clusters[b].val[m] \notin KeySet(U[p].centers)
            /\ RowOf(U[p].clusters[b].key) > RowOf(U[p].clusters[b].val[m])

\* C19: two builds running for different cache keys do not interfere through
\* the scratch file: between its save and its removal a build's file exists
\* and holds the index that build saved, and no build fails on the file.
C19_PrivateScratch ==
  \A p, q \in Procs :
    (p # q /\ pc[p] # "idle" /\ pc[q] # "idle" /\ Key(eps[p], seed[p]) # Key(eps[q], seed[q])) =>
      /\ pc[p] \in {"classify", "remove"} => (tmp.exists /\ a[p] = Values(U[p].centers))
      /\ err[p] \notin {"FileNotFoundError", "Crash"}

====
